---- MODULE Spec2Model ----
(***************************************************************************)
(* Model of the stock/price synchronisation scripts seller.py (Ozon) and   *)
(* market.py (Yandex Market).                                              *)
(*                                                                         *)
(* Text values that the code inspects character by character (prices,      *)
(* quantities) are sequences of one-character strings.  Offer identifiers  *)
(* are abstract values (naturals); a feed row's code is the value of       *)
(* str(watch.get("Код")).                                                  *)
(***************************************************************************)
EXTENDS Integers, Sequences, FiniteSets, TLC

VARIABLES
    fn,             \* the function under execution
    pc,             \* its position
    campaign,       \* main: the campaign (account) the position belongs to
    arg,            \* arguments of a directly called function
    ret,            \* what a directly called function returned / yielded
    range_i,        \* divide: index of the next element of range(0, len(lst), n)
    feed,           \* the supplier's spreadsheet (remote)
    remote,         \* the marketplace's offer identifiers, per campaign (remote)
    clock,          \* datetime.utcnow(), in seconds
    watch_remnants, \* main: local watch_remnants
    offer_ids,      \* main: local offer_ids (a mutable list object)
    stocks,         \* main: local stocks
    prices,         \* main: local prices
    chunks,         \* the chunks of list(divide(...)) not yet iterated
    requests,       \* the HTTP requests made so far, in order
    printed,        \* what print() wrote
    coroutines,     \* coroutine objects created and never awaited
    product_list,   \* get_offer_ids: local product_list
    page,           \* get_offer_ids: local last_id / page (<<>> is the empty value)
    history         \* the requests and output of the earlier runs of the script

vars == <<fn, pc, campaign, arg, ret, range_i, feed, remote, clock, watch_remnants,
          offer_ids, stocks, prices, chunks, requests, printed, coroutines,
          product_list, page, history>>

callVars == <<arg, ret, range_i, product_list, page>>
mainVars == <<campaign, feed, remote, clock, watch_remnants, offer_ids, stocks, prices,
              chunks, requests, printed, coroutines, history>>

-----------------------------------------------------------------------------
(* Bounds of the explored inputs *)

MaxRows == 2        \* rows of a feed given to the mappers
MaxOffers == 2      \* offer identifiers of a listing
MaxFeed == 2        \* rows of the feed in a run of main
MaxLen == 4         \* elements of a list given to divide
MaxN == 3           \* chunk size given to divide
MaxPrice == 4       \* characters of a price string
MaxClock == 1       \* seconds the clock may show
MaxPages == 2       \* pages of a listing
MaxPageItems == 1   \* products on a page
MaxTotal == 2       \* the total a listing reports
MaxFetches == 3     \* page requests followed in one call of get_offer_ids

Codes == {1, 2}

Digits == {"0", "1", "2", "3", "4", "5", "6", "7", "8", "9"}

\* all sequences over S of length at most k
SeqsUpTo(S, k) == UNION {[1..m -> S] : m \in 0..k}

Min(a, b) == IF a <= b THEN a ELSE b

-----------------------------------------------------------------------------
(* Python primitives used by the code *)

\* x in lst
In(x, lst) == \E k \in 1..Len(lst) : lst[k] = x

\* (mutant) the matched identifier is left in the list
ListRemoveKeeps(lst, x) == lst

\* lst.remove(x): drops the first occurrence (callers guard with `in`)
ListRemove(lst, x) ==
    LET k == CHOOSE j \in 1..Len(lst) :
                 lst[j] = x /\ \A h \in 1..(j - 1) : lst[h] # x
    IN  SubSeq(lst, 1, k - 1) \o SubSeq(lst, k + 1, Len(lst))

\* s.split(sep) for a one-character separator
RECURSIVE StrSplit(_, _)
StrSplit(s, sep) ==
    IF ~In(sep, s) THEN <<s>>
    ELSE LET k == CHOOSE j \in 1..Len(s) :
                      s[j] = sep /\ \A h \in 1..(j - 1) : s[h] # sep
         IN  <<SubSeq(s, 1, k - 1)>> \o StrSplit(SubSeq(s, k + 1, Len(s)), sep)

IsDigit(c) == c \in Digits

\* re.sub("[^0-9]", "", s)
ReSubNonDigits(s) == SelectSeq(s, IsDigit)

DigitValue(c) ==
    CASE c = "0" -> 0 [] c = "1" -> 1 [] c = "2" -> 2 [] c = "3" -> 3
      [] c = "4" -> 4 [] c = "5" -> 5 [] c = "6" -> 6 [] c = "7" -> 7
      [] c = "8" -> 8 [] c = "9" -> 9

RECURSIVE DecimalValue(_)
DecimalValue(s) ==
    IF s = <<>> THEN 0
    ELSE 10 * DecimalValue(SubSeq(s, 1, Len(s) - 1)) + DigitValue(s[Len(s)])

\* int(s) for a string s: ValueError unless s is a non-empty run of digits
int(s) ==
    IF s # <<>> /\ \A k \in 1..Len(s) : IsDigit(s[k])
    THEN [exc |-> "none", val |-> DecimalValue(s)]
    ELSE [exc |-> "ValueError", val |-> 0]

\* the number of elements of range(start, stop, step), step # 0
RangeLen(start, stop, step) ==
    IF step > 0
    THEN IF stop > start THEN (stop - start + step - 1) \div step ELSE 0
    ELSE IF start > stop THEN (start - stop - step - 1) \div (-step) ELSE 0

\* range(start, stop, step)[k], k counted from 1
RangeAt(start, step, k) == start + (k - 1) * step

\* lst[a:b] for 0 <= a <= b
Slice(lst, a, b) == SubSeq(lst, a + 1, Min(b, Len(lst)))

-----------------------------------------------------------------------------
(* seller.py: price_conversion and divide *)

\* (mutant) the fraction is not cut off
price_conversion_keeps_fraction(price) == ReSubNonDigits(price)

price_conversion(price) == ReSubNonDigits(StrSplit(price, ".")[1])

\* (mutant) the slice ends one element early
divide_chunk_short(lst, n, k) ==
    Slice(lst, RangeAt(0, n, k), RangeAt(0, n, k) + n - 1)

\* the chunk yielded for the k-th element i of range(0, len(lst), n): lst[i: i + n]
divide_chunk(lst, n, k) == Slice(lst, RangeAt(0, n, k), RangeAt(0, n, k) + n)

\* (mutant) a zero step gives an empty range
range_accepts_zero(step) == FALSE

\* range() refuses a zero step
range_raises(step) == step = 0

\* list(divide(lst, n)) for n # 0: the chunks in the order yielded
divide(lst, n) ==
    [k \in 1..RangeLen(0, Len(lst), n) |-> divide_chunk(lst, n, k)]

-----------------------------------------------------------------------------
(* The mappers of seller.py and market.py                                  *)
(* A feed row is [code, qty, price]: str(watch.get("Код")),                *)
(* watch.get("Количество") and watch.get("Цена").                          *)

P100 == <<"1", "0", "0", ".", "5", "0">>
GT10 == <<">", "1", "0">>
ONE == <<"1">>

\* (mutant) ">10" taken for ten
StockOfTen(qty) ==
    IF qty = GT10 THEN [exc |-> "none", val |-> 10]
    ELSE IF qty = ONE THEN [exc |-> "none", val |-> 0]
    ELSE int(qty)

\* the if/elif/else that turns a row's quantity into a stock
StockOf(qty) ==
    IF qty = GT10 THEN [exc |-> "none", val |-> 100]
    ELSE IF qty = ONE THEN [exc |-> "none", val |-> 0]
    ELSE int(qty)

\* a stock entry that also carries the time of the run
SellerStockEntryStamped(code, stock) ==
    [offer_id |-> code, stock |-> stock, updatedAt |-> clock]

SellerStockEntry(code, stock) == [offer_id |-> code, stock |-> stock]

MarketStockEntry(code, warehouse_id, stock, date) ==
    [sku |-> code, warehouseId |-> warehouse_id,
     items |-> <<[count |-> stock, type |-> "FIT", updatedAt |-> date]>>]

\* one iteration of seller.create_stocks' first loop; st = [exc, stocks, offer_ids]
seller_stocks_body(watch, st) ==
    IF st.exc # "none" THEN st
    ELSE IF In(watch.code, st.offer_ids)
    THEN LET stock == StockOf(watch.qty)
         IN  IF stock.exc # "none"
             THEN [st EXCEPT !.exc = stock.exc]
             ELSE [exc |-> "none",
                   stocks |-> Append(st.stocks, SellerStockEntry(watch.code, stock.val)),
                   offer_ids |-> ListRemove(st.offer_ids, watch.code)]
    ELSE st

\* for watch in watch_remnants[lo..hi], run in order (split in halves)
RECURSIVE seller_stocks_loop(_, _, _, _)
seller_stocks_loop(rows, lo, hi, st) ==
    IF lo > hi THEN st
    ELSE IF lo = hi THEN seller_stocks_body(rows[lo], st)
    ELSE LET mid == (lo + hi) \div 2
             half == seller_stocks_loop(rows, lo, mid, st)
         IN  IF half.exc # "none" THEN half   \* raised: the loop is left
             ELSE seller_stocks_loop(rows, mid + 1, hi, half)

\* seller.create_stocks: [exc, value, offer_ids]; offer_ids is the caller's
\* list as the call leaves it
seller_create_stocks(rows, ids) ==
    LET st == seller_stocks_loop(rows, 1, Len(rows),
                                 [exc |-> "none", stocks |-> <<>>, offer_ids |-> ids])
    IN  IF st.exc # "none"
        THEN [exc |-> st.exc, value |-> <<>>, offer_ids |-> st.offer_ids]
        ELSE [exc |-> "none",
              value |-> st.stocks \o
                        [k \in 1..Len(st.offer_ids) |->
                            SellerStockEntry(st.offer_ids[k], 0)],
              offer_ids |-> st.offer_ids]

market_stocks_body(watch, st, warehouse_id, date) ==
    IF st.exc # "none" THEN st
    ELSE IF In(watch.code, st.offer_ids)
    THEN LET stock == StockOf(watch.qty)
         IN  IF stock.exc # "none"
             THEN [st EXCEPT !.exc = stock.exc]
             ELSE [exc |-> "none",
                   stocks |-> Append(st.stocks,
                       MarketStockEntry(watch.code, warehouse_id, stock.val, date)),
                   offer_ids |-> ListRemove(st.offer_ids, watch.code)]
    ELSE st

RECURSIVE market_stocks_loop(_, _, _, _, _, _)
market_stocks_loop(rows, lo, hi, st, warehouse_id, date) ==
    IF lo > hi THEN st
    ELSE IF lo = hi THEN market_stocks_body(rows[lo], st, warehouse_id, date)
    ELSE LET mid == (lo + hi) \div 2
             half == market_stocks_loop(rows, lo, mid, st, warehouse_id, date)
         IN  IF half.exc # "none" THEN half   \* raised: the loop is left
             ELSE market_stocks_loop(rows, mid + 1, hi, half, warehouse_id, date)

\* market.create_stocks; date is utcnow() read once at the start of the call
market_create_stocks(rows, ids, warehouse_id, date) ==
    LET st == market_stocks_loop(rows, 1, Len(rows),
                  [exc |-> "none", stocks |-> <<>>, offer_ids |-> ids],
                  warehouse_id, date)
    IN  IF st.exc # "none"
        THEN [exc |-> st.exc, value |-> <<>>, offer_ids |-> st.offer_ids]
        ELSE [exc |-> "none",
              value |-> st.stocks \o
                        [k \in 1..Len(st.offer_ids) |->
                            MarketStockEntry(st.offer_ids[k], warehouse_id, 0, date)],
              offer_ids |-> st.offer_ids]

SellerPriceEntry(watch) ==
    [auto_action_enabled |-> "UNKNOWN", currency_code |-> "RUB",
     offer_id |-> watch.code, old_price |-> "0",
     price |-> price_conversion(watch.price)]

\* seller.create_prices: reads offer_ids, never writes it
seller_create_prices(rows, ids) ==
    LET hit == SelectSeq(rows, LAMBDA watch : In(watch.code, ids))
    IN  [exc |-> "none",
         value |-> [k \in 1..Len(hit) |-> SellerPriceEntry(hit[k])],
         offer_ids |-> ids]

MarketPriceEntry(watch) ==
    [id |-> watch.code,
     price |-> [value |-> int(price_conversion(watch.price)).val,
                currencyId |-> "RUR"]]

\* (mutant) the membership test is dropped
market_create_prices_all(rows, ids) ==
    IF \E k \in 1..Len(rows) : int(price_conversion(rows[k].price)).exc # "none"
    THEN [exc |-> "ValueError", value |-> <<>>, offer_ids |-> ids]
    ELSE [exc |-> "none",
          value |-> [k \in 1..Len(rows) |-> MarketPriceEntry(rows[k])],
          offer_ids |-> ids]

\* market.create_prices: int() raises on a price without digits
market_create_prices(rows, ids) ==
    LET hit == SelectSeq(rows, LAMBDA watch : In(watch.code, ids))
    IN  IF \E k \in 1..Len(hit) : int(price_conversion(hit[k].price)).exc # "none"
        THEN [exc |-> "ValueError", value |-> <<>>, offer_ids |-> ids]
        ELSE [exc |-> "none",
              value |-> [k \in 1..Len(hit) |-> MarketPriceEntry(hit[k])],
              offer_ids |-> ids]

-----------------------------------------------------------------------------
(* Direct calls of the pure functions, on every input within the bounds *)

CallIdle == arg = <<>> /\ ret = <<>> /\ range_i = 0

MainIdle ==
    /\ campaign = "none"
    /\ feed = <<>> /\ remote = <<>> /\ clock = 0
    /\ watch_remnants = <<>> /\ offer_ids = <<>>
    /\ stocks = <<>> /\ prices = <<>> /\ chunks = <<>>
    /\ requests = <<>> /\ printed = <<>> /\ coroutines = <<>>
    /\ product_list = <<>> /\ page = <<>> /\ history = <<>>

\* --- price_conversion(price) ---

PriceChars == {"5", "0", ".", "'"}

DocPrice1 == <<"5", "'", "9", "9", "0", ".", "0", "0">>
DocPrice2 == <<"5", ".", "9", "9", "0", ".", "0", "0">>

PriceInputs == SeqsUpTo(PriceChars, MaxPrice) \cup {DocPrice1, DocPrice2}

PriceInit ==
    /\ fn = "price_conversion" /\ pc = "call"
    /\ arg \in PriceInputs /\ ret = <<>> /\ range_i = 0
    /\ MainIdle

CallPriceConversion ==
    /\ fn = "price_conversion" /\ pc = "call"
    /\ ret' = price_conversion(arg)
    /\ pc' = "returned"
    /\ UNCHANGED <<fn, arg, range_i, mainVars, product_list, page>>

PriceNext == CallPriceConversion

SpecPrice == PriceInit /\ [][PriceNext]_vars

\* --- divide(lst, n), consumed one next() at a time ---

DivideInit ==
    /\ fn = "divide" /\ pc = "created"
    /\ arg \in [lst : SeqsUpTo(Codes, MaxLen), n : (-1)..MaxN]
    /\ ret = <<>> /\ range_i = 0
    /\ MainIdle

\* first next(): range(0, len(lst), 0) raises ValueError
DivideRaise ==
    /\ fn = "divide" /\ pc = "created"
    /\ range_raises(arg.n)
    /\ pc' = "raised"
    /\ UNCHANGED <<fn, arg, ret, range_i, mainVars, product_list, page>>

\* next() with an element of the range left: yield lst[i: i + n]
DivideYield ==
    /\ fn = "divide" /\ pc \in {"created", "suspended"}
    /\ ~(pc = "created" /\ range_raises(arg.n))
    /\ range_i < RangeLen(0, Len(arg.lst), arg.n)
    /\ ret' = Append(ret, divide_chunk(arg.lst, arg.n, range_i + 1))
    /\ range_i' = range_i + 1
    /\ pc' = "suspended"
    /\ UNCHANGED <<fn, arg, mainVars, product_list, page>>

\* next() with the range used up: StopIteration
DivideStop ==
    /\ fn = "divide" /\ pc \in {"created", "suspended"}
    /\ ~(pc = "created" /\ range_raises(arg.n))
    /\ range_i >= RangeLen(0, Len(arg.lst), arg.n)
    /\ pc' = "exhausted"
    /\ UNCHANGED <<fn, arg, ret, range_i, mainVars, product_list, page>>

DivideNext == DivideRaise \/ DivideYield \/ DivideStop

SpecDivide == DivideInit /\ [][DivideNext]_vars

\* --- create_stocks / create_prices of both modules ---

MapperQuantities == {GT10, ONE, <<"1", "2">>, <<>>}
MapperPrices == {<<"1", "0", "0", ".", "5", "0">>, <<".", "5">>}
MapperRows == [code : Codes, qty : MapperQuantities, price : MapperPrices]

MapperInit ==
    /\ fn = "none" /\ pc = "call"
    /\ arg \in [watch_remnants : SeqsUpTo(MapperRows, MaxRows),
                offer_ids : SeqsUpTo(Codes, MaxOffers),
                warehouse_id : {"WAREHOUSE"}, date : {0}]
    /\ ret = <<>> /\ range_i = 0
    /\ campaign = "none"
    /\ feed = <<>> /\ remote = <<>> /\ clock = 0
    /\ watch_remnants = <<>> /\ offer_ids = arg.offer_ids
    /\ stocks = <<>> /\ prices = <<>> /\ chunks = <<>>
    /\ requests = <<>> /\ printed = <<>> /\ coroutines = <<>>
    /\ product_list = <<>> /\ page = <<>> /\ history = <<>>

Returns(name, r) ==
    /\ fn' = name
    /\ pc' = IF r.exc = "none" THEN "returned" ELSE "raised"
    /\ ret' = [exc |-> r.exc, value |-> r.value]
    /\ offer_ids' = r.offer_ids
    /\ UNCHANGED <<range_i, campaign, feed, remote, clock, watch_remnants, stocks,
                   prices, chunks, requests, printed, coroutines,
                   product_list, page, history>>

CallSellerCreateStocks ==
    /\ fn = "none" /\ pc = "call"
    /\ Returns("seller.create_stocks",
               seller_create_stocks(arg.watch_remnants, offer_ids))
    /\ UNCHANGED arg

CallMarketCreateStocks ==
    /\ fn = "none" /\ pc = "call"
    /\ \E now \in 0..MaxClock :
        /\ arg' = [arg EXCEPT !.date = now]
        /\ Returns("market.create_stocks",
                   market_create_stocks(arg.watch_remnants, offer_ids,
                                        arg.warehouse_id, now))

CallSellerCreatePrices ==
    /\ fn = "none" /\ pc = "call"
    /\ Returns("seller.create_prices",
               seller_create_prices(arg.watch_remnants, offer_ids))
    /\ UNCHANGED arg

CallMarketCreatePrices ==
    /\ fn = "none" /\ pc = "call"
    /\ Returns("market.create_prices",
               market_create_prices(arg.watch_remnants, offer_ids))
    /\ UNCHANGED arg

MapperNext ==
    \/ CallSellerCreateStocks
    \/ CallMarketCreateStocks
    \/ CallSellerCreatePrices
    \/ CallMarketCreatePrices

SpecMapper == MapperInit /\ [][MapperNext]_vars

-----------------------------------------------------------------------------
(* Properties of the mappers (checked under SpecMapper) *)

Count(lst, x) == Cardinality({k \in 1..Len(lst) : lst[k] = x})

RowsWith(rows, c) == {j \in 1..Len(rows) : rows[j].code = c}

\* the position of element x of the finite set S of integers, counted from 1
RankIn(S, x) == Cardinality({y \in S : y <= x})

\* the quantity the business rule assigns, written out for the explored quantities
Bucketed(qty) ==
    CASE qty = GT10 -> 100
      [] qty = ONE -> 0
      [] qty = <<"1", "2">> -> 12

InStocksCall == fn \in {"seller.create_stocks", "market.create_stocks"}
InPricesCall == fn \in {"seller.create_prices", "market.create_prices"}

EntryId(e) == IF fn = "seller.create_stocks" THEN e.offer_id ELSE e.sku
EntryQty(e) == IF fn = "seller.create_stocks" THEN e.stock ELSE e.items[1].count

\* rows that find their identifier still in the list when the loop reaches them
MatchedRows(rows, ids) ==
    {i \in 1..Len(rows) :
        RankIn(RowsWith(rows, rows[i].code), i) <= Count(ids, rows[i].code)}

\* listed identifiers no row has taken
LeftIds(rows, ids) ==
    {k \in 1..Len(ids) :
        RankIn({h \in 1..Len(ids) : ids[h] = ids[k]}, k)
            > Cardinality(RowsWith(rows, ids[k]))}

PriceId(e) == IF fn = "seller.create_prices" THEN e.offer_id ELSE e.id

\* C6: create_prices returns, in feed order, one entry per row whose code is
\* in the known list, priced with the integer part of the row's price
\* ("100.50" gives 100), nothing for the other rows, and leaves the known
\* list as it was.
C6_PricesPerListedRow ==
    (InPricesCall /\ pc = "returned") =>
        LET rows == arg.watch_remnants
            ids == arg.offer_ids
            out == ret.value
            H == {i \in 1..Len(rows) : In(rows[i].code, ids)}
        IN  /\ Len(out) = Cardinality(H)
            /\ \A i \in H :
                 LET e == out[RankIn(H, i)]
                 IN  /\ PriceId(e) = rows[i].code
                     /\ fn = "seller.create_prices" =>
                          /\ rows[i].price = P100 => e.price = <<"1", "0", "0">>
                          /\ rows[i].price # P100 => e.price = <<>>
                     /\ fn = "market.create_prices" =>
                          /\ rows[i].price = P100
                          /\ e.price.value = 100
            /\ offer_ids = ids

C6_Witness ==
    /\ fn = "market.create_prices" /\ pc = "returned"
    /\ arg.offer_ids = <<1>>
    /\ Len(arg.watch_remnants) = 2
    /\ arg.watch_remnants[1].code = 2
    /\ arg.watch_remnants[2].code = 1
    /\ arg.watch_remnants[2].price = P100
    /\ Len(ret.value) = 1
    /\ ret.value[1].price.value = 100

-----------------------------------------------------------------------------
(* Properties of divide (checked under SpecDivide) *)

RECURSIVE Flatten(_)
Flatten(ss) == IF ss = <<>> THEN <<>> ELSE Head(ss) \o Flatten(Tail(ss))

\* C7: for n > 0 the chunks of divide(lst, n), concatenated, are lst; no chunk
\* is longer than n; all but the last have exactly n elements; an empty list
\* yields no chunk.
C7_DividePartitions ==
    (fn = "divide" /\ arg.n > 0 /\ pc = "exhausted") =>
        /\ Flatten(ret) = arg.lst
        /\ \A k \in 1..Len(ret) : Len(ret[k]) <= arg.n
        /\ \A k \in 1..(Len(ret) - 1) : Len(ret[k]) = arg.n
        /\ arg.lst = <<>> => ret = <<>>
        /\ ret = divide(arg.lst, arg.n)

C7_Witness ==
    /\ fn = "divide" /\ pc = "exhausted"
    /\ arg.n = 3 /\ Len(arg.lst) = 4
    /\ Len(ret) = 2 /\ Len(ret[2]) = 1

\* C8: divide(lst, 0) fails for every list, the empty one included: it never
\* yields a chunk and never completes as an empty sequence.
C8_DivideZeroFails ==
    (fn = "divide" /\ arg.n = 0) =>
        /\ ret = <<>>
        /\ pc \in {"created", "raised"}

C8_Witness ==
    /\ fn = "divide" /\ arg.n = 0 /\ arg.lst = <<>> /\ pc = "raised"

-----------------------------------------------------------------------------
(* Properties of price_conversion (checked under SpecPrice) *)

\* the index of the first "." of p, Len(p) + 1 when there is none
FirstDot(p) ==
    IF In(".", p)
    THEN CHOOSE j \in 1..Len(p) : p[j] = "." /\ \A h \in 1..(j - 1) : p[h] # "."
    ELSE Len(p) + 1

\* C9: price_conversion returns, in order, the digits that precede the first
\* "." (all digits when there is no "."); "5'990.00" gives "5990", "5.990.00"
\* gives "5"; the result holds digits only.
C9_PriceConversionDigits ==
    (fn = "price_conversion" /\ pc = "returned") =>
        LET at == {k \in 1..(FirstDot(arg) - 1) : arg[k] \in Digits}
        IN  /\ Len(ret) = Cardinality(at)
            /\ \A k \in at : ret[RankIn(at, k)] = arg[k]
            /\ \A j \in 1..Len(ret) : ret[j] \in Digits
            /\ arg = DocPrice1 => ret = <<"5", "9", "9", "0">>
            /\ arg = DocPrice2 => ret = <<"5">>

C9_Witness ==
    /\ fn = "price_conversion" /\ pc = "returned"
    /\ arg = DocPrice1 /\ ret = <<"5", "9", "9", "0">>

-----------------------------------------------------------------------------
(* The orchestrators: seller.main and market.main                          *)
(* One action per statement of main; a statement that performs an HTTP     *)
(* request either succeeds or raises what the transport or                 *)
(* raise_for_status raises.                                                *)

SELLER_STOCK_CHUNK == 100
SELLER_PRICE_CHUNK == 900
SELLER_UPLOAD_STOCK_CHUNK == 100
SELLER_UPLOAD_PRICE_CHUNK == 1000
MARKET_STOCK_CHUNK == 2000
MARKET_UPLOAD_STOCK_CHUNK == 2000
MARKET_UPLOAD_PRICE_CHUNK == 500

HttpErrors == {"ReadTimeout", "ConnectionError", "HTTPError"}
HttpOutcomes == {"ok"} \cup HttpErrors
\* download_stock also unpacks an archive and parses a spreadsheet
DownloadOutcomes == HttpOutcomes \cup {"BadZipFile"}

Request(op, c, body, status) ==
    [op |-> op, campaign |-> c, body |-> body, status |-> status]

\* the except clauses of main: what is printed for an exception of this kind
\* ("Превышено время ожидания...", error + "Ошибка соединения", error + "ERROR_2")
Report(kind) ==
    IF kind = "ReadTimeout" THEN <<"timeout">>
    ELSE IF kind = "ConnectionError" THEN <<kind, "connection error">>
    ELSE <<kind, "ERROR_2">>

\* an except clause that prints and lets the failed step run again
CaughtRetries(kind) ==
    /\ printed' = Append(printed, Report(kind))
    /\ pc' = pc

\* an exception of this kind raised inside the try block of main
Caught(kind) ==
    /\ printed' = Append(printed, Report(kind))
    /\ pc' = "done"

FeedRows == [code : Codes, qty : {GT10, <<>>}, price : {P100}]

NoListing == [OZON |-> <<>>, FBS |-> <<>>, DBS |-> <<>>]

MainStart ==
    /\ arg = <<>> /\ ret = <<>> /\ range_i = 0
    /\ clock = 0
    /\ watch_remnants = <<>> /\ offer_ids = <<>>
    /\ stocks = <<>> /\ prices = <<>> /\ chunks = <<>>
    /\ requests = <<>> /\ printed = <<>> /\ coroutines = <<>>
    /\ product_list = <<>> /\ page = <<>> /\ history = <<>>

\* --- seller.main ---

Init ==
    /\ fn = "seller.main" /\ pc = "get_offer_ids" /\ campaign = "OZON"
    /\ feed \in SeqsUpTo(FeedRows, MaxFeed)
    /\ \E ids \in SeqsUpTo(Codes, MaxOffers) :
           remote = [NoListing EXCEPT !.OZON = ids]
    /\ MainStart

\* offer_ids = get_offer_ids(client_id, seller_token)
SellerGetOfferIds ==
    /\ fn = "seller.main" /\ pc = "get_offer_ids"
    /\ \E status \in HttpOutcomes :
        /\ requests' = Append(requests,
                              Request("get_product_list", campaign, <<>>, status))
        /\ IF status = "ok"
           THEN /\ offer_ids' = remote[campaign]
                /\ pc' = "download_stock"
                /\ UNCHANGED printed
           ELSE /\ Caught(status)
                /\ UNCHANGED offer_ids
    /\ UNCHANGED <<fn, campaign, callVars, history, feed, remote, clock, watch_remnants,
                   stocks, prices, chunks, coroutines>>

\* watch_remnants = download_stock()
SellerDownloadStock ==
    /\ fn = "seller.main" /\ pc = "download_stock"
    /\ \E status \in DownloadOutcomes :
        /\ requests' = Append(requests,
                              Request("download_stock", "SUPPLIER", <<>>, status))
        /\ IF status = "ok"
           THEN /\ watch_remnants' = feed
                /\ pc' = "create_stocks"
                /\ UNCHANGED printed
           ELSE /\ Caught(status)
                /\ UNCHANGED watch_remnants
    /\ UNCHANGED <<fn, campaign, callVars, history, feed, remote, clock, offer_ids,
                   stocks, prices, chunks, coroutines>>

\* stocks = create_stocks(watch_remnants, offer_ids); list(divide(stocks, 100))
SellerCreateStocks ==
    /\ fn = "seller.main" /\ pc = "create_stocks"
    /\ LET r == seller_create_stocks(watch_remnants, offer_ids)
           todo == divide(r.value, SELLER_STOCK_CHUNK)
       IN  /\ offer_ids' = r.offer_ids
           /\ IF r.exc = "none"
              THEN /\ stocks' = r.value
                   /\ chunks' = todo
                   /\ pc' = IF todo = <<>> THEN "create_prices" ELSE "update_stocks"
                   /\ UNCHANGED printed
              ELSE /\ Caught(r.exc)
                   /\ UNCHANGED <<stocks, chunks>>
    /\ UNCHANGED <<fn, campaign, callVars, history, feed, remote, clock, watch_remnants,
                   prices, requests, coroutines>>

\* update_stocks(some_stock, client_id, seller_token), one iteration
SellerUpdateStocks ==
    /\ fn = "seller.main" /\ pc = "update_stocks"
    /\ \E status \in HttpOutcomes :
        /\ requests' = Append(requests,
                              Request("update_stocks", campaign, Head(chunks), status))
        /\ IF status = "ok"
           THEN /\ chunks' = Tail(chunks)
                /\ pc' = IF Tail(chunks) = <<>> THEN "create_prices" ELSE "update_stocks"
                /\ UNCHANGED printed
           ELSE /\ Caught(status)
                /\ UNCHANGED chunks
    /\ UNCHANGED <<fn, campaign, callVars, history, feed, remote, clock, watch_remnants,
                   offer_ids, stocks, prices, coroutines>>

\* prices = create_prices(watch_remnants, offer_ids); list(divide(prices, 900))
SellerCreatePrices ==
    /\ fn = "seller.main" /\ pc = "create_prices"
    /\ LET r == seller_create_prices(watch_remnants, offer_ids)
           todo == divide(r.value, SELLER_PRICE_CHUNK)
       IN  /\ offer_ids' = r.offer_ids
           /\ prices' = r.value
           /\ chunks' = todo
           /\ pc' = IF todo = <<>> THEN "done" ELSE "update_price"
    /\ UNCHANGED <<fn, campaign, callVars, history, feed, remote, clock, watch_remnants,
                   stocks, requests, printed, coroutines>>

\* update_price(some_price, client_id, seller_token), one iteration
SellerUpdatePrice ==
    /\ fn = "seller.main" /\ pc = "update_price"
    /\ \E status \in HttpOutcomes :
        /\ requests' = Append(requests,
                              Request("update_price", campaign, Head(chunks), status))
        /\ IF status = "ok"
           THEN /\ chunks' = Tail(chunks)
                /\ pc' = IF Tail(chunks) = <<>> THEN "done" ELSE "update_price"
                /\ UNCHANGED printed
           ELSE /\ Caught(status)
                /\ UNCHANGED chunks
    /\ UNCHANGED <<fn, campaign, callVars, history, feed, remote, clock, watch_remnants,
                   offer_ids, stocks, prices, coroutines>>

Next ==
    \/ SellerGetOfferIds
    \/ SellerDownloadStock
    \/ SellerCreateStocks
    \/ SellerUpdateStocks
    \/ SellerCreatePrices
    \/ SellerUpdatePrice

Spec == Init /\ [][Next]_vars

-----------------------------------------------------------------------------
(* market.main: FBS, then DBS, inside one try block; download_stock runs   *)
(* before the try block                                                    *)

Warehouse(c) == IF c = "FBS" THEN "WAREHOUSE_FBS_ID" ELSE "WAREHOUSE_DBS_ID"

MarketInit ==
    /\ fn = "market.main" /\ pc = "download_stock" /\ campaign = "FBS"
    /\ feed \in SeqsUpTo(FeedRows, MaxFeed)
    /\ \E fbs \in SeqsUpTo(Codes, MaxOffers), dbs \in SeqsUpTo(Codes, MaxOffers) :
           remote = [NoListing EXCEPT !.FBS = fbs, !.DBS = dbs]
    /\ MainStart

\* watch_remnants = download_stock(): an exception here leaves main uncaught
MarketDownloadStock ==
    /\ fn = "market.main" /\ pc = "download_stock"
    /\ \E status \in DownloadOutcomes :
        /\ requests' = Append(requests,
                              Request("download_stock", "SUPPLIER", <<>>, status))
        /\ IF status = "ok"
           THEN /\ watch_remnants' = feed
                /\ pc' = "get_offer_ids"
           ELSE /\ pc' = "raised"
                /\ UNCHANGED watch_remnants
    /\ UNCHANGED <<fn, campaign, callVars, history, feed, remote, clock, offer_ids,
                   stocks, prices, chunks, printed, coroutines>>

\* offer_ids = get_offer_ids(campaign_id, market_token)
MarketGetOfferIds ==
    /\ fn = "market.main" /\ pc = "get_offer_ids"
    /\ \E status \in HttpOutcomes :
        /\ requests' = Append(requests,
                              Request("get_product_list", campaign, <<>>, status))
        /\ IF status = "ok"
           THEN /\ offer_ids' = remote[campaign]
                /\ pc' = "create_stocks"
                /\ UNCHANGED printed
           ELSE /\ Caught(status)
                /\ UNCHANGED offer_ids
    /\ UNCHANGED <<fn, campaign, callVars, history, feed, remote, clock, watch_remnants,
                   stocks, prices, chunks, coroutines>>

\* stocks = create_stocks(watch_remnants, offer_ids, warehouse_id);
\* list(divide(stocks, 2000))
MarketCreateStocks ==
    /\ fn = "market.main" /\ pc = "create_stocks"
    /\ \E now \in clock..MaxClock :
        LET r == market_create_stocks(watch_remnants, offer_ids,
                                      Warehouse(campaign), now)
            todo == divide(r.value, MARKET_STOCK_CHUNK)
        IN  /\ clock' = now
            /\ offer_ids' = r.offer_ids
            /\ IF r.exc = "none"
               THEN /\ stocks' = r.value
                    /\ chunks' = todo
                    /\ pc' = IF todo = <<>> THEN "upload_prices" ELSE "update_stocks"
                    /\ UNCHANGED printed
               ELSE /\ Caught(r.exc)
                    /\ UNCHANGED <<stocks, chunks>>
    /\ UNCHANGED <<fn, campaign, callVars, history, feed, remote, watch_remnants,
                   prices, requests, coroutines>>

\* update_stocks(some_stock, campaign_id, market_token), one iteration
MarketUpdateStocks ==
    /\ fn = "market.main" /\ pc = "update_stocks"
    /\ \E status \in HttpOutcomes :
        /\ requests' = Append(requests,
                              Request("update_stocks", campaign, Head(chunks), status))
        /\ IF status = "ok"
           THEN /\ chunks' = Tail(chunks)
                /\ pc' = IF Tail(chunks) = <<>> THEN "upload_prices" ELSE "update_stocks"
                /\ UNCHANGED printed
           ELSE /\ Caught(status)
                /\ UNCHANGED chunks
    /\ UNCHANGED <<fn, campaign, callVars, history, feed, remote, clock, watch_remnants,
                   offer_ids, stocks, prices, coroutines>>

\* upload_prices(watch_remnants, campaign_id, market_token): upload_prices is
\* an `async def` and the call is not awaited, so it only creates a coroutine
\* object; no statement of upload_prices runs
MarketUploadPrices ==
    /\ fn = "market.main" /\ pc = "upload_prices"
    /\ coroutines' = Append(coroutines,
                            [fn |-> "market.upload_prices", campaign |-> campaign])
    /\ IF campaign = "FBS"
       THEN campaign' = "DBS" /\ pc' = "get_offer_ids"
       ELSE campaign' = campaign /\ pc' = "done"
    /\ UNCHANGED <<fn, callVars, history, feed, remote, clock, watch_remnants, offer_ids,
                   stocks, prices, chunks, requests, printed>>

MarketNext ==
    \/ MarketDownloadStock
    \/ MarketGetOfferIds
    \/ MarketCreateStocks
    \/ MarketUpdateStocks
    \/ MarketUploadPrices

SpecMarket == MarketInit /\ [][MarketNext]_vars

-----------------------------------------------------------------------------
(* upload_stocks and upload_prices of both modules, run as an awaiting     *)
(* caller would run them; an exception leaves the function                 *)

UploadFns == {"seller.upload_stocks", "seller.upload_prices",
              "market.upload_stocks", "market.upload_prices"}

\* the n of list(divide(..., n)) in each upload function
UploadChunk(f) ==
    CASE f = "seller.upload_stocks" -> SELLER_UPLOAD_STOCK_CHUNK
      [] f = "seller.upload_prices" -> SELLER_UPLOAD_PRICE_CHUNK
      [] f = "market.upload_stocks" -> MARKET_UPLOAD_STOCK_CHUNK
      [] f = "market.upload_prices" -> MARKET_UPLOAD_PRICE_CHUNK

\* the client call of the loop body
UploadOp(f) ==
    IF f \in {"seller.upload_stocks", "market.upload_stocks"}
    THEN "update_stocks" ELSE "update_price"

\* the create_* call of each upload function
UploadPayload(f, rows, ids, c, now) ==
    CASE f = "seller.upload_stocks" -> seller_create_stocks(rows, ids)
      [] f = "seller.upload_prices" -> seller_create_prices(rows, ids)
      [] f = "market.upload_stocks" -> market_create_stocks(rows, ids, Warehouse(c), now)
      [] f = "market.upload_prices" -> market_create_prices(rows, ids)

\* offer_ids = get_offer_ids(...)
UploadGetOfferIds ==
    /\ fn \in UploadFns /\ pc = "get_offer_ids"
    /\ \E status \in HttpOutcomes :
        /\ requests' = Append(requests,
                              Request("get_product_list", campaign, <<>>, status))
        /\ IF status = "ok"
           THEN offer_ids' = remote[campaign] /\ pc' = "create"
           ELSE offer_ids' = offer_ids /\ pc' = "raised"
    /\ UNCHANGED <<fn, campaign, callVars, history, feed, remote, clock, watch_remnants,
                   stocks, prices, chunks, printed, coroutines>>

\* stocks / prices = create_*(watch_remnants, offer_ids, ...); list(divide(..., n))
UploadCreate ==
    /\ fn \in UploadFns /\ pc = "create"
    /\ \E now \in clock..MaxClock :
        LET r == UploadPayload(fn, watch_remnants, offer_ids, campaign, now)
            todo == divide(r.value, UploadChunk(fn))
        IN  /\ clock' = IF fn = "market.upload_stocks" THEN now ELSE clock
            /\ offer_ids' = r.offer_ids
            /\ IF r.exc = "none"
               THEN /\ IF UploadOp(fn) = "update_stocks"
                       THEN stocks' = r.value /\ prices' = prices
                       ELSE prices' = r.value /\ stocks' = stocks
                    /\ chunks' = todo
                    /\ pc' = IF todo = <<>> THEN "returned" ELSE "update"
               ELSE /\ pc' = "raised"
                    /\ UNCHANGED <<stocks, prices, chunks>>
    /\ UNCHANGED <<fn, campaign, callVars, history, feed, remote, watch_remnants,
                   requests, printed, coroutines>>

\* update_stocks / update_price(chunk, ...), one iteration
UploadUpdate ==
    /\ fn \in UploadFns /\ pc = "update"
    /\ \E status \in HttpOutcomes :
        /\ requests' = Append(requests,
                              Request(UploadOp(fn), campaign, Head(chunks), status))
        /\ IF status = "ok"
           THEN /\ chunks' = Tail(chunks)
                /\ pc' = IF Tail(chunks) = <<>> THEN "returned" ELSE "update"
           ELSE /\ pc' = "raised"
                /\ UNCHANGED chunks
    /\ UNCHANGED <<fn, campaign, callVars, history, feed, remote, clock, watch_remnants,
                   offer_ids, stocks, prices, printed, coroutines>>

UploadNext == UploadGetOfferIds \/ UploadCreate \/ UploadUpdate

-----------------------------------------------------------------------------
(* Every caller of update_stocks / update_price, on payloads around the    *)
(* chunk sizes                                                             *)

ChunkSizes == {SELLER_STOCK_CHUNK, SELLER_PRICE_CHUNK, SELLER_UPLOAD_STOCK_CHUNK,
               SELLER_UPLOAD_PRICE_CHUNK, MARKET_STOCK_CHUNK,
               MARKET_UPLOAD_STOCK_CHUNK, MARKET_UPLOAD_PRICE_CHUNK}

BatchLens == {1} \cup {k + 1 : k \in ChunkSizes}

\* a feed of len rows with the codes 1..len, and the listing of the same codes
BigFeed(len) == [k \in 1..len |-> [code |-> k, qty |-> GT10, price |-> P100]]
BigListing(len) == [k \in 1..len |-> k]

BatchScenarios ==
    {[rows |-> BigFeed(len), ids |-> BigListing(len)] : len \in BatchLens}
        \cup {[rows |-> BigFeed(1), ids |-> <<1, 1>>]}

BatchInit ==
    /\ fn \in {"seller.main", "market.main"} \cup UploadFns
    /\ pc = IF fn = "market.main" THEN "download_stock" ELSE "get_offer_ids"
    /\ campaign = IF fn \in {"seller.main", "seller.upload_stocks",
                             "seller.upload_prices"} THEN "OZON" ELSE "FBS"
    /\ \E sc \in BatchScenarios :
        /\ feed = sc.rows
        /\ remote = [OZON |-> sc.ids, FBS |-> sc.ids, DBS |-> sc.ids]
        /\ watch_remnants = IF fn \in UploadFns THEN sc.rows ELSE <<>>
    /\ arg = <<>> /\ ret = <<>> /\ range_i = 0
    /\ clock = 0 /\ offer_ids = <<>>
    /\ stocks = <<>> /\ prices = <<>> /\ chunks = <<>>
    /\ requests = <<>> /\ printed = <<>> /\ coroutines = <<>>
    /\ product_list = <<>> /\ page = <<>> /\ history = <<>>

BatchNext == Next \/ MarketNext \/ UploadNext

SpecBatch == BatchInit /\ [][BatchNext]_vars

-----------------------------------------------------------------------------
(* Properties of seller.main (checked under Spec) *)

ErrorFreeRun == pc = "done" /\ printed = <<>>

\* the entries of every batch pushed with this operation for this campaign
Pushed(op, c) ==
    LET sent == SelectSeq(requests,
                          LAMBDA q : q.op = op /\ q.campaign = c /\ q.status = "ok")
    IN  Flatten([k \in 1..Len(sent) |-> sent[k].body])

\* C1: in an error-free run of seller.main, every supplier row whose code is
\* among the offer identifiers the listing returned has a price update in the
\* batches pushed with update_price.
C1_ListedRowsGetPriceUpdate ==
    (fn = "seller.main" /\ ErrorFreeRun) =>
        \A i \in 1..Len(feed) :
            In(feed[i].code, remote.OZON) =>
                \E q \in 1..Len(requests) :
                    /\ requests[q].op = "update_price"
                    /\ \E e \in 1..Len(requests[q].body) :
                           requests[q].body[e].offer_id = feed[i].code

-----------------------------------------------------------------------------
(* Properties of market.main (checked under SpecMarket) *)

\* C2: in an error-free run of market.main, for each campaign the price list
\* is built and every chunk of it is pushed with update_price before main
\* moves on or finishes.
C2_PricesPushedPerCampaign ==
    (fn = "market.main" /\ ErrorFreeRun) =>
        \A c \in {"FBS", "DBS"} :
            Pushed("update_price", c)
                = market_create_prices(watch_remnants, remote[c]).value

\* a step of the FBS part has failed and was reported
FbsFailed ==
    /\ fn = "market.main" /\ pc = "done" /\ printed # <<>>
    /\ campaign = "FBS"

\* C3: a failure while processing FBS does not prevent DBS from being
\* attempted: once the error is reported, the DBS listing has been requested.
C3_DbsAttemptedAfterFbsFailure ==
    FbsFailed =>
        \E q \in 1..Len(requests) :
            requests[q].op = "get_product_list" /\ requests[q].campaign = "DBS"

-----------------------------------------------------------------------------
(* Properties of the batches (checked under SpecBatch) *)

\* C10: every batch passed to update_stocks or update_price is within the
\* marketplace's per-call limit: 2000 stock and 500 price entries for Yandex
\* Market (market.py), 100 stock and 900 price entries for Ozon (seller.py).
C10_BatchesWithinLimits ==
    \A q \in 1..Len(requests) :
        LET r == requests[q]
        IN  /\ (r.op = "update_stocks" /\ r.campaign \in {"FBS", "DBS"})
                  => Len(r.body) <= 2000
            /\ (r.op = "update_price" /\ r.campaign \in {"FBS", "DBS"})
                  => Len(r.body) <= 500
            /\ (r.op = "update_stocks" /\ r.campaign = "OZON")
                  => Len(r.body) <= 100
            /\ (r.op = "update_price" /\ r.campaign = "OZON")
                  => Len(r.body) <= 900

-----------------------------------------------------------------------------
(* The script run again: `if __name__ == "__main__": main()` starts main   *)
(* with fresh locals; the supplier's feed and the marketplace's offers are *)
(* what they were, the clock has moved on or not.  Followed: a second run   *)
(* after a run that went through without an error.                         *)

Mains == {"seller.main", "market.main"}

Rerun ==
    /\ fn \in Mains /\ pc = "done" /\ printed = <<>>
    /\ history = <<>>
    /\ history' = Append(history, [requests |-> requests, printed |-> printed,
                                   pc |-> pc])
    /\ pc' = IF fn = "market.main" THEN "download_stock" ELSE "get_offer_ids"
    /\ campaign' = IF fn = "market.main" THEN "FBS" ELSE "OZON"
    /\ \E now \in clock..MaxClock : clock' = now
    /\ watch_remnants' = <<>> /\ offer_ids' = <<>>
    /\ stocks' = <<>> /\ prices' = <<>> /\ chunks' = <<>>
    /\ requests' = <<>> /\ printed' = <<>> /\ coroutines' = <<>>
    /\ UNCHANGED <<fn, callVars, feed, remote>>

\* feeds whose quantities all convert, so that a run can go through
TwiceRows == [code : Codes, qty : {GT10}, price : {P100}]

TwiceInit ==
    /\ fn \in Mains
    /\ pc = IF fn = "market.main" THEN "download_stock" ELSE "get_offer_ids"
    /\ campaign = IF fn = "market.main" THEN "FBS" ELSE "OZON"
    /\ feed \in SeqsUpTo(TwiceRows, MaxFeed)
    /\ \E ids \in SeqsUpTo(Codes, MaxOffers), dbs \in SeqsUpTo(Codes, MaxOffers) :
           remote = IF fn = "market.main"
                    THEN [NoListing EXCEPT !.FBS = ids, !.DBS = dbs]
                    ELSE [NoListing EXCEPT !.OZON = ids]
    /\ MainStart

TwiceNext == Next \/ MarketNext \/ Rerun

SpecTwice == TwiceInit /\ [][TwiceNext]_vars

-----------------------------------------------------------------------------
(* Properties of two runs in a row (checked under SpecTwice) *)

\* the update requests of a run, in the order they were sent
UpdateBatches(log) ==
    SelectSeq(log, LAMBDA q : q.op \in {"update_stocks", "update_price"})

\* a batch without the updatedAt of its stock entries
WithoutDate(q) ==
    IF q.op = "update_stocks" /\ q.campaign \in {"FBS", "DBS"}
    THEN [q EXCEPT !.body =
              [e \in 1..Len(q.body) |->
                  [q.body[e] EXCEPT !.items =
                      [i \in 1..Len(q.body[e].items) |->
                          [count |-> q.body[e].items[i].count,
                           type |-> q.body[e].items[i].type]]]]]
    ELSE q

WithoutDates(log) == [k \in 1..Len(log) |-> WithoutDate(log[k])]

\* the second of two runs that both went through without an error
SecondFullRun ==
    /\ fn \in Mains /\ ErrorFreeRun
    /\ Len(history) = 1
    /\ history[1].pc = "done" /\ history[1].printed = <<>>

\* C11 as stated: two full runs on the same feed and the same offers send the
\* same sequence of stock and price batches, for both marketplaces.
C11_RunsSendIdenticalBatches ==
    SecondFullRun => UpdateBatches(requests) = UpdateBatches(history[1].requests)

\* C11: two full runs on the same feed and the same offers send the same
\* sequence of stock and price batches in seller.main; in market.main they
\* send the same sequence up to the updatedAt of the stock entries, which is
\* the time of the run.
C11_RunsSendSameBatchesUpToDate ==
    SecondFullRun =>
        /\ fn = "seller.main" =>
               UpdateBatches(requests) = UpdateBatches(history[1].requests)
        /\ fn = "market.main" =>
               WithoutDates(UpdateBatches(requests))
                   = WithoutDates(UpdateBatches(history[1].requests))

C11_Witness ==
    /\ SecondFullRun /\ fn = "market.main"
    /\ UpdateBatches(requests) # <<>>
    /\ UpdateBatches(requests) # UpdateBatches(history[1].requests)

-----------------------------------------------------------------------------
(* Properties of the error handling of both mains (checked under Spec and  *)
(* SpecMarket)                                                             *)

\* the requests that raised
FailedRequests == {q \in 1..Len(requests) : requests[q].status # "ok"}

\* C12: an error raised at any step of seller.main or market.main is caught
\* by main: no exception leaves main, and once a request has raised, no later
\* step was run, the message of the except clause was printed and main has
\* returned.
C12_ErrorsCaughtByMain ==
    fn \in Mains =>
        /\ pc # "raised"
        /\ \A q \in FailedRequests :
            /\ q = Len(requests)
            /\ pc = "done"
            /\ printed = <<Report(requests[q].status)>>

-----------------------------------------------------------------------------
(* get_offer_ids of both modules against a server that holds a listing of  *)
(* finitely many pages.  A request with the empty cursor is answered with  *)
(* the first page, a request with the cursor of page k with page k; every  *)
(* page but the last carries the cursor of the next one.  Ozon also        *)
(* reports a total with every page.                                        *)

ListingFns == {"seller.get_offer_ids", "market.get_offer_ids"}

PageItems == SeqsUpTo(Codes, MaxPageItems)

Servers == [pages : UNION {[1..m -> PageItems] : m \in 1..MaxPages},
            total : 0..MaxTotal]

PageAt(cursor) == IF cursor = <<>> THEN 1 ELSE cursor[1]

NextCursor(server, k) == IF k < Len(server.pages) THEN <<k + 1>> ELSE <<>>

\* response_object.get("result") of seller.get_product_list(last_id, ...)
seller_get_product_list(server, last_id) ==
    LET k == PageAt(last_id)
    IN  [items |-> [i \in 1..Len(server.pages[k]) |->
                       [offer_id |-> server.pages[k][i]]],
         total |-> server.total,
         last_id |-> NextCursor(server, k)]

\* response_object.get("result") of market.get_product_list(page, ...)
market_get_product_list(server, token) ==
    LET k == PageAt(token)
    IN  [offerMappingEntries |-> [i \in 1..Len(server.pages[k]) |->
                                     [offer |-> [shopSku |-> server.pages[k][i]]]],
         paging |-> [nextPageToken |-> NextCursor(server, k)]]

ListingInit ==
    /\ fn \in ListingFns /\ pc = "loop"
    /\ arg \in Servers /\ ret = <<>> /\ range_i = 0
    /\ MainIdle

\* the break of seller.get_offer_ids: total == len(product_list)
seller_loop_ends(some_prod, list) == some_prod.total = Len(list)

\* one iteration of the while loop of seller.get_offer_ids, and the second
\* loop and the return when it breaks
SellerFetchPage ==
    /\ fn = "seller.get_offer_ids" /\ pc = "loop"
    /\ Len(requests) < MaxFetches
    /\ \E status \in HttpOutcomes :
        /\ requests' = Append(requests,
                              Request("get_product_list", "OZON", page, status))
        /\ IF status = "ok"
           THEN LET some_prod == seller_get_product_list(arg, page)
                    list == product_list \o some_prod.items
                IN  /\ product_list' = list
                    /\ page' = some_prod.last_id
                    /\ IF seller_loop_ends(some_prod, list)
                       THEN /\ ret' = [k \in 1..Len(list) |-> list[k].offer_id]
                            /\ pc' = "returned"
                       ELSE UNCHANGED <<ret, pc>>
           ELSE /\ pc' = "raised"
                /\ UNCHANGED <<ret, product_list, page>>
    /\ UNCHANGED <<fn, arg, range_i, campaign, feed, remote, clock, watch_remnants,
                   offer_ids, stocks, prices, chunks, printed, coroutines, history>>

\* the break of market.get_offer_ids: not page
market_loop_ends(token) == token = <<>>

\* one iteration of the while loop of market.get_offer_ids, and the second
\* loop and the return when it breaks
MarketFetchPage ==
    /\ fn = "market.get_offer_ids" /\ pc = "loop"
    /\ Len(requests) < MaxFetches
    /\ \E status \in HttpOutcomes :
        /\ requests' = Append(requests,
                              Request("get_product_list", "FBS", page, status))
        /\ IF status = "ok"
           THEN LET some_prod == market_get_product_list(arg, page)
                    list == product_list \o some_prod.offerMappingEntries
                IN  /\ product_list' = list
                    /\ page' = some_prod.paging.nextPageToken
                    /\ IF market_loop_ends(some_prod.paging.nextPageToken)
                       THEN /\ ret' = [k \in 1..Len(list) |-> list[k].offer.shopSku]
                            /\ pc' = "returned"
                       ELSE UNCHANGED <<ret, pc>>
           ELSE /\ pc' = "raised"
                /\ UNCHANGED <<ret, product_list, page>>
    /\ UNCHANGED <<fn, arg, range_i, campaign, feed, remote, clock, watch_remnants,
                   offer_ids, stocks, prices, chunks, printed, coroutines, history>>

ListingNext == SellerFetchPage \/ MarketFetchPage

SpecListing == ListingInit /\ [][ListingNext]_vars

-----------------------------------------------------------------------------
(* Properties of get_offer_ids (checked under SpecListing) *)

\* the identifiers of all the pages of a server, in page order
AllIds(server) == Flatten(server.pages)

\* C13: get_offer_ids of either module fetches the pages of the server one
\* after the other and never asks for more pages than the server holds; it
\* goes on only while pages are left, returns when a page came without a
\* cursor, and then returns the identifiers of all pages in page order; when
\* a request raises it is left at once, with nothing returned.
C13_ListingStopsAtLastPage ==
    fn \in ListingFns =>
        /\ Len(requests) <= Len(arg.pages)
        /\ pc = "loop" => Len(requests) < Len(arg.pages)
        /\ pc = "returned" =>
               /\ page = <<>>
               /\ Len(requests) = Len(arg.pages)
               /\ ret = AllIds(arg)
        /\ pc = "raised" =>
               /\ requests[Len(requests)].status # "ok"
               /\ ret = <<>>

\* the same, for market.get_offer_ids alone
MarketListingStopsAtLastPage ==
    fn = "market.get_offer_ids" => C13_ListingStopsAtLastPage

-----------------------------------------------------------------------------
(* Properties of the pushes (checked under SpecBatch) *)

UpdateOps == {"update_stocks", "update_price"}

\* the n of the list(divide(..., n)) whose chunks the function pushes with op
ChunkOf(f, op) ==
    CASE f = "seller.main" ->
             IF op = "update_stocks" THEN SELLER_STOCK_CHUNK ELSE SELLER_PRICE_CHUNK
      [] f = "market.main" -> MARKET_STOCK_CHUNK
      [] OTHER -> UploadChunk(f)

\* the batches of the current campaign for op, in the order of the loop
Batches(op) ==
    divide(IF op = "update_stocks" THEN stocks ELSE prices, ChunkOf(fn, op))

\* the positions of the requests that pushed a batch of op for campaign c
SentAt(op, c) ==
    SelectSeq([q \in 1..Len(requests) |-> q],
              LAMBDA q : requests[q].op = op /\ requests[q].campaign = c)

-----------------------------------------------------------------------------
(* Properties of the order of the steps of both mains (checked under Spec  *)
(* and SpecMarket)                                                         *)

\* the positions of the requests of this operation
RequestsOf(op) == {q \in 1..Len(requests) : requests[q].op = op}

\* the price list main is to push for campaign c
PriceList(c) ==
    IF fn = "seller.main" THEN prices
    ELSE market_create_prices(watch_remnants, remote[c]).value

\* C15: in a run of seller.main or market.main the offer listing is requested
\* before the supplier feed is downloaded; when price batches are pushed or
\* the price list is built, every stock batch of the campaign has been
\* pushed; and main is done only after an error was reported or the whole
\* price list was pushed.
C15_StepsInOrder ==
    fn \in Mains =>
        /\ \A d \in RequestsOf("download_stock") :
               \E g \in RequestsOf("get_product_list") : g < d
        /\ (pc \in {"update_price", "upload_prices"} \/ prices # <<>>) =>
               Pushed("update_stocks", campaign) = stocks
        /\ ErrorFreeRun => Pushed("update_price", campaign) = PriceList(campaign)

====
